---- MODULE Spec2Model ----
(***************************************************************************)
(* Model of the two Pinyin collators of the repository                     *)
(*   src/PinyinAbcSort.py   (weight table, letter by letter)               *)
(*   src/PinyinGrokSort.py  (base / tones / u-umlaut / case / separator)    *)
(* and of their sort drivers pinyin_abc_sort and pinyin_grok_sort.         *)
(*                                                                         *)
(* A character is its Unicode code point (what Python's ord gives), a word *)
(* is a sequence of code points.                                           *)
(***************************************************************************)
EXTENDS Integers, Sequences, FiniteSets, TLC

VARIABLES
    words,    \* the words handed to the comparators: a triple <<a, b, c>>
    abc,      \* PinyinAbcSort._compare_pinyin on every ordered pair, or NotCalled
    grok,     \* PinyinGrokSort._compare_pinyin on every ordered pair, or NotCalled
    decomp,   \* get_base_and_tones of every word, or NotCalled
    items,    \* the list handed to the sort drivers
    key,      \* the key argument of the sort drivers
    abcOut,   \* pinyin_abc_sort(items, key, reverse), by reverse flag, or NotCalled
    grokOut   \* pinyin_grok_sort(items, key, reverse), by reverse flag, or NotCalled

vars == <<words, abc, grok, decomp, items, key, abcOut, grokOut>>

\* the value of a result variable before the call
NotCalled == [called |-> FALSE, result |-> <<>>]

\* the value of a result variable after a call that gave r
Returned(r) == [called |-> TRUE, result |-> r]

----------------------------------------------------------------------------
(* Bounds of the checked instances.                                        *)

\* longest word of a triple handed to the comparators
MaxLen == 2
\* longest word of the pairs of words handed to the comparators
MaxPairLen == 3
\* longest generated list handed to the sort drivers
MaxItems == 3

----------------------------------------------------------------------------
(* Python built-ins the code relies on.                                    *)

\* str.lower() on one character, for the Latin letters the model draws from:
\* A-Z, the Latin-1 capitals, the macron/breve capitals of Latin Extended-A
\* and the caron / diaeresis capitals U+01CD..U+01DB.
lower_char(c) ==
    IF c \in 65..90 THEN c + 32
    ELSE IF c \in 192..222 /\ c # 215 THEN c + 32
    ELSE IF c \in 256..303 /\ c % 2 = 0 THEN c + 1
    ELSE IF c \in 330..375 /\ c % 2 = 0 THEN c + 1
    ELSE IF c \in 461..475 /\ c % 2 = 1 THEN c + 1
    ELSE c

\* str.lower()
lower(w) == [i \in 1..Len(w) |-> lower_char(w[i])]

\* str.isupper() on one character of the same range
isupper(c) == lower_char(c) # c

\* str.isalpha() on one character of the range U+0000..U+024F
isalpha(c) ==
    \/ c \in 65..90
    \/ c \in 97..122
    \/ c \in {170, 181, 186}
    \/ c \in 192..591 /\ c \notin {215, 247}

\* Python's < on two lists (and on two strings, by code point): the first
\* differing position decides, a strict prefix is smaller.
SeqLess(s, t) ==
    \E k \in 0..Len(s) :
        /\ k <= Len(t)
        /\ \A i \in 1..k : s[i] = t[i]
        /\ \/ k = Len(s) /\ k < Len(t)
           \/ k < Len(s) /\ k < Len(t) /\ s[k + 1] < t[k + 1]

\* (x > y) - (x < y) on two lists
SeqCmp(s, t) ==
    (IF SeqLess(t, s) THEN 1 ELSE 0) - (IF SeqLess(s, t) THEN 1 ELSE 0)

\* c in <string>
Contains(w, c) == \E i \in 1..Len(w) : w[i] = c

----------------------------------------------------------------------------
(* PinyinAbcSort._compare_pinyin                                           *)

\* "0123456789aāáǎàbcdeēéěèfghiīíǐìjklmnoōóǒòpqrsstuūúǔùüǖǘǚǜvwxyz'- "
ordered_chars ==
    << 48, 49, 50, 51, 52, 53, 54, 55, 56, 57,        \* 0123456789
       97, 257, 225, 462, 224,                        \* a ā á ǎ à
       98, 99, 100,                                   \* b c d
       101, 275, 233, 283, 232,                       \* e ē é ě è
       102, 103, 104,                                 \* f g h
       105, 299, 237, 464, 236,                       \* i ī í ǐ ì
       106, 107, 108, 109, 110,                       \* j k l m n
       111, 333, 243, 466, 242,                       \* o ō ó ǒ ò
       112, 113, 114, 115, 115, 116,                  \* p q r s s t
       117, 363, 250, 468, 249,                       \* u ū ú ǔ ù
       252, 470, 472, 474, 476,                       \* ü ǖ ǘ ǚ ǜ
       118, 119, 120, 121, 122,                       \* v w x y z
       39, 45, 32 >>                                  \* ' - space

\* WEIGHTS = {char: i for i, char in enumerate(ordered_chars)}: a character
\* has the 0-based index of its entry, and a later entry of the same
\* character overwrites an earlier one.
WEIGHTS ==
    [c \in {ordered_chars[i] : i \in 1..Len(ordered_chars)} |->
        (CHOOSE i \in 1..Len(ordered_chars) :
            /\ ordered_chars[i] = c
            /\ \A j \in (i + 1)..Len(ordered_chars) : ordered_chars[j] # c) - 1]

OFFSET == Len(ordered_chars)

\* a fixed rank for every character outside the table
weight_sentinel(c) == IF c \in DOMAIN WEIGHTS THEN WEIGHTS[c] ELSE OFFSET

\* WEIGHTS.get(c, ord(c) + OFFSET)
weight(c) == IF c \in DOMAIN WEIGHTS THEN WEIGHTS[c] ELSE c + OFFSET

\* [WEIGHTS.get(c, ord(c) + OFFSET) for c in w]
weights_of(w) == [i \in 1..Len(w) |-> weight(w[i])]

\* the comparison of the lowercased words alone, without the second step
abc_compare_no_tiebreak(w1, w2) ==
    SeqCmp(weights_of(lower(w1)), weights_of(lower(w2)))

abc_compare_pinyin(w1, w2) ==
    LET seq1 == weights_of(lower(w1))
        seq2 == weights_of(lower(w2))
        cmp_lower == SeqCmp(seq1, seq2)
    IN  IF cmp_lower = 0
        THEN SeqCmp(weights_of(w1), weights_of(w2))
        ELSE cmp_lower

----------------------------------------------------------------------------
(* PinyinGrokSort._compare_pinyin                                          *)

\* 'āáǎàēéěèīíǐìōóǒòūúǔùǖǘǚǜ'
toned_chars ==
    << 257, 225, 462, 224,  275, 233, 283, 232,  299, 237, 464, 236,
       333, 243, 466, 242,  363, 250, 468, 249,  470, 472, 474, 476 >>

\* 'aaaaeeeeiiiioooouuuuüüüü'
untoned_chars ==
    << 97, 97, 97, 97,  101, 101, 101, 101,  105, 105, 105, 105,
       111, 111, 111, 111,  117, 117, 117, 117,  252, 252, 252, 252 >>

\* str.maketrans(toned, untoned)
maketrans ==
    [c \in {toned_chars[i] : i \in 1..Len(toned_chars)} |->
        untoned_chars[CHOOSE i \in 1..Len(toned_chars) : toned_chars[i] = c]]

\* c in 'āáǎàēéěèīíǐìōóǒòūúǔùǖǘǚǜ'
is_toned(c) == c \in DOMAIN maketrans

\* one character through the translation table
translate_char(c) == IF c \in DOMAIN maketrans THEN maketrans[c] ELSE c

\* syllable.translate(str.maketrans(...))
translate(s) == [i \in 1..Len(s) |-> translate_char(s[i])]

\* 1 if c in 'āēīōūǖ' else 2 if c in 'áéíóúǘ' else 3 if c in 'ǎěǐǒǔǚ'
\* else 4 if c in 'àèìòùǜ' else 0
tone_of(c) ==
    IF c \in {257, 275, 299, 333, 363, 470} THEN 1
    ELSE IF c \in {225, 233, 237, 243, 250, 472} THEN 2
    ELSE IF c \in {462, 283, 464, 466, 468, 474} THEN 3
    ELSE IF c \in {224, 232, 236, 242, 249, 476} THEN 4
    ELSE 0

\* the loop "for c in word.lower()" from position i on, with the loop's
\* locals base, tones, syllable; then the handling of the last syllable
RECURSIVE scan(_, _, _, _, _)
scan(lw, i, base, tones, syllable) ==
    IF i > Len(lw)
    THEN IF syllable # <<>>
         THEN [base  |-> base \o translate(syllable),
               tones |-> Append(tones,
                            IF ~ \E j \in 1..Len(syllable) : is_toned(syllable[j])
                            THEN 0
                            ELSE IF tones # <<>> THEN tones[Len(tones)] ELSE 0)]
         ELSE [base |-> base, tones |-> tones]
    ELSE LET c == lw[i] IN
         IF c \in {32, 45}
         THEN IF syllable # <<>>
              THEN scan(lw, i + 1, base \o translate(syllable),
                        Append(tones, 0), <<>>)
              ELSE scan(lw, i + 1, base, tones, syllable)
         ELSE scan(lw, i + 1, base,
                   IF is_toned(c) THEN Append(tones, tone_of(c)) ELSE tones,
                   Append(syllable, c))

get_base_and_tones(word) == scan(lower(word), 1, <<>>, <<>>, <<>>)

\* [c for c in w if c.isalpha()], as the positions kept
alpha_of(w) == {i \in 1..Len(w) : isalpha(w[i])}

\* sum(c.isupper() for c in alpha)
upper_count(w) == Cardinality({i \in alpha_of(w) : isupper(w[i])})

\* case1 < case2 for case = upper_count / len(alpha) if alpha else 0, the
\* two quotients compared by cross multiplication (a word without letters
\* has the quotient 0 / 1)
case_less(w1, w2) ==
    LET n1 == IF alpha_of(w1) = {} THEN 1 ELSE Cardinality(alpha_of(w1))
        n2 == IF alpha_of(w2) = {} THEN 1 ELSE Cardinality(alpha_of(w2))
    IN  upper_count(w1) * n2 < upper_count(w2) * n1

\* 0 if ' ' not in w and '-' not in w else 1 if ' ' in w else 2
sep_class(w) ==
    IF ~ Contains(w, 32) /\ ~ Contains(w, 45) THEN 0
    ELSE IF Contains(w, 32) THEN 1 ELSE 2

\* the last step written like the steps before it: -1 if sep1 < sep2 else 1
grok_compare_no_equal(w1, w2) ==
    LET d1 == get_base_and_tones(w1)
        d2 == get_base_and_tones(w2)
        u1 == Contains(lower(w1), 252)
        u2 == Contains(lower(w2), 252)
    IN  IF d1.base # d2.base
        THEN IF SeqLess(d1.base, d2.base) THEN -1 ELSE 1
        ELSE IF d1.tones # d2.tones
        THEN IF SeqLess(d1.tones, d2.tones) THEN -1 ELSE 1
        ELSE IF u1 # u2
        THEN IF u1 THEN 1 ELSE -1
        ELSE IF case_less(w1, w2) \/ case_less(w2, w1)
        THEN IF case_less(w1, w2) THEN -1 ELSE 1
        ELSE IF sep_class(w1) < sep_class(w2) THEN -1 ELSE 1

grok_compare_pinyin(w1, w2) ==
    LET d1 == get_base_and_tones(w1)
        d2 == get_base_and_tones(w2)
        u1 == Contains(lower(w1), 252)
        u2 == Contains(lower(w2), 252)
    IN  IF d1.base # d2.base
        THEN IF SeqLess(d1.base, d2.base) THEN -1 ELSE 1
        ELSE IF d1.tones # d2.tones
        THEN IF SeqLess(d1.tones, d2.tones) THEN -1 ELSE 1
        ELSE IF u1 # u2
        THEN IF u1 THEN 1 ELSE -1
        ELSE IF case_less(w1, w2) \/ case_less(w2, w1)
        THEN IF case_less(w1, w2) THEN -1 ELSE 1
        ELSE IF sep_class(w1) < sep_class(w2) THEN -1
        ELSE IF sep_class(w1) > sep_class(w2) THEN 1
        ELSE 0

----------------------------------------------------------------------------
(* pinyin_abc_sort and pinyin_grok_sort                                    *)

\* The key argument: <<>> is None, <<k>> is the string k.
None == <<>>

\* "if k": None and the empty string are false
truthy(k) == k # None /\ k[1] # ""

\* A list item is a string, [kind |-> "str", s |-> word], or a dictionary,
\* [kind |-> "dict", d |-> a function from its keys to words].
\* What the comparator lambda gets out of item x: extractor(x) is x[key] for
\* a true key and x itself otherwise, and _compare_pinyin calls .lower() on
\* it.  x[key] raises KeyError on a dictionary without the key and TypeError
\* on a string; .lower() raises AttributeError on a dictionary.
extractor(x, k) ==
    IF truthy(k)
    THEN IF x.kind = "dict"
         THEN IF k[1] \in DOMAIN x.d
              THEN [error |-> "none", word |-> x.d[k[1]]]
              ELSE [error |-> "KeyError", word |-> <<>>]
         ELSE [error |-> "TypeError", word |-> <<>>]
    ELSE IF x.kind = "dict"
         THEN [error |-> "AttributeError", word |-> <<>>]
         ELSE [error |-> "none", word |-> x.s]

\* lambda a, b: _compare_pinyin(extractor(a), extractor(b)) of either module
compare_items(which, x, y, k) ==
    IF which = "abc"
    THEN abc_compare_pinyin(extractor(x, k).word, extractor(y, k).word)
    ELSE grok_compare_pinyin(extractor(x, k).word, extractor(y, k).word)

\* list.reverse()
Reverse(lst) == [i \in 1..Len(lst) |-> lst[Len(lst) + 1 - i]]

\* One step of the stable sort: x goes in front of the first element it is
\* less than (cmp_to_key: x < e iff the comparator gives a negative number).
insert(which, sorted, x, k) ==
    LET before == {i \in 1..Len(sorted) :
                      \A j \in 1..i : compare_items(which, x, sorted[j], k) >= 0}
        p == Cardinality(before)
    IN  SubSeq(sorted, 1, p) \o <<x>> \o SubSeq(sorted, p + 1, Len(sorted))

RECURSIVE stable_sort(_, _, _)
stable_sort(which, lst, k) ==
    IF lst = <<>> THEN <<>>
    ELSE insert(which, stable_sort(which, SubSeq(lst, 1, Len(lst) - 1), k),
                lst[Len(lst)], k)

\* the sort with the reverse flag dropped
sort_call_ascending(which, lst, k, reverse) ==
    LET failing == {i \in 1..Len(lst) : extractor(lst[i], k).error # "none"}
    IN  IF Len(lst) < 2
        THEN [error |-> "none", list |-> lst]
        ELSE IF failing # {}
        THEN [error |-> extractor(lst[CHOOSE i \in failing : TRUE], k).error,
              list |-> <<>>]
        ELSE [error |-> "none", list |-> stable_sort(which, lst, k)]

\* list.sort(key=cmp_to_key(...), reverse=reverse) / sorted(...): a list of
\* fewer than two items is returned without a call of the comparator; in a
\* longer list every item is compared, so a failing extraction ends the call;
\* reverse=True sorts the reversed list and reverses the result, which keeps
\* equal items in their input order.
sort_call(which, lst, k, reverse) ==
    LET failing == {i \in 1..Len(lst) : extractor(lst[i], k).error # "none"}
    IN  IF Len(lst) < 2
        THEN [error |-> "none", list |-> lst]
        ELSE IF failing # {}
        THEN [error |-> extractor(lst[CHOOSE i \in failing : TRUE], k).error,
              list |-> <<>>]
        ELSE [error |-> "none",
              list |-> IF reverse
                       THEN Reverse(stable_sort(which, Reverse(lst), k))
                       ELSE stable_sort(which, lst, k)]

pinyin_abc_sort(lst, k, reverse) == sort_call("abc", lst, k, reverse)

pinyin_grok_sort(lst, k, reverse) == sort_call("grok", lst, k, reverse)

----------------------------------------------------------------------------
(* Inputs                                                                  *)

\* all words over the characters S of length at most n
WordsOver(S, n) == UNION {[1..k -> S] : k \in 0..n}

\* Characters of the word triples: each triple is drawn over one family.
TripleAlphabets ==
    { {97, 224, 65},      \* a à A
      {97, 32, 45},       \* a space hyphen
      {117, 252},         \* u ü
      {252, 220},         \* ü Ü
      {474, 252},         \* ǚ ü
      {224, 32},          \* à space
      {192, 45},          \* À hyphen
      {115, 35},          \* s #
      {39, 97},           \* ' a
      {35, 65} }          \* # A

\* Characters of the word pairs handed to PinyinAbcSort._compare_pinyin
AbcPairAlphabets ==
    { {97, 65, 224, 192},     \* a A à À
      {117, 252, 220, 476},   \* u ü Ü ǜ
      {115, 83, 39, 32},      \* s S ' space
      {110, 35, 36, 65} }     \* n # $ A

\* Characters of the word pairs handed to PinyinGrokSort._compare_pinyin
GrokPairAlphabets ==
    { {97, 257, 224, 98},     \* a ā à b
      {224, 97, 32, 45},      \* à a space hyphen
      {117, 252, 474, 85} }   \* u ü ǚ U

\* the words of the usage example of PinyinAbcSort
bao3zhang4 == <<98, 462, 111, 122, 104, 224, 110, 103>>   \* bǎozhàng
Bao3yu3    == <<66, 462, 111, 121, 468>>                  \* Bǎoyǔ
bao3yu4    == <<98, 462, 111, 121, 249>>                  \* bǎoyù

Str(w) == [kind |-> "str", s |-> w]
Dict(d) == [kind |-> "dict", d |-> d]

\* words = ["bǎozhàng", "Bǎoyǔ", "bǎoyù"]
DocWords == <<Str(bao3zhang4), Str(Bao3yu3), Str(bao3yu4)>>

\* the strings and the dictionaries of the generated lists
StrItems == {Str(w) : w \in {<<97>>, <<65>>, <<224>>, <<97, 32>>, <<32, 97>>}}

DictItems ==
    { Dict([k \in {"pinyin", "id"} |-> IF k = "pinyin" THEN <<97>> ELSE <<49>>]),
      Dict([k \in {"pinyin", "id"} |-> IF k = "pinyin" THEN <<97>> ELSE <<50>>]),
      Dict([k \in {"pinyin", "id"} |-> IF k = "pinyin" THEN <<65>> ELSE <<50>>]),
      Dict([k \in {"pinyin", "id"} |-> IF k = "pinyin" THEN <<224>> ELSE <<49>>]),
      Dict([k \in {"id"} |-> <<49>>]) }

ItemLists ==
    {DocWords} \cup WordsOver(StrItems, MaxItems) \cup WordsOver(DictItems, MaxItems)

Keys == {None, <<"pinyin">>, <<"id">>, <<"">>}

----------------------------------------------------------------------------
(* The calls                                                               *)

Pairs == {<<i, j>> : i \in DOMAIN words, j \in DOMAIN words}

NoSort == [reverse \in BOOLEAN |-> NotCalled]

\* PinyinAbcSort._compare_pinyin, called on every ordered pair of the words
AbcCompare ==
    /\ ~ abc.called
    /\ abc' = Returned([p \in Pairs |-> abc_compare_pinyin(words[p[1]], words[p[2]])])
    /\ UNCHANGED <<words, grok, decomp, items, key, abcOut, grokOut>>

\* PinyinGrokSort._compare_pinyin, called on every ordered pair of the
\* words; decomp keeps what get_base_and_tones returned for each word
GrokCompare ==
    /\ ~ grok.called
    /\ decomp' = Returned([i \in DOMAIN words |-> get_base_and_tones(words[i])])
    /\ grok' = Returned([p \in Pairs |-> grok_compare_pinyin(words[p[1]], words[p[2]])])
    /\ UNCHANGED <<words, abc, items, key, abcOut, grokOut>>

AbcSort(reverse) ==
    /\ ~ abcOut[reverse].called
    /\ abcOut' = [abcOut EXCEPT ![reverse] = Returned(pinyin_abc_sort(items, key, reverse))]
    /\ UNCHANGED <<words, abc, grok, decomp, items, key, grokOut>>

GrokSort(reverse) ==
    /\ ~ grokOut[reverse].called
    /\ grokOut' = [grokOut EXCEPT ![reverse] = Returned(pinyin_grok_sort(items, key, reverse))]
    /\ UNCHANGED <<words, abc, grok, decomp, items, key, abcOut>>

NoCompare == abc = NotCalled /\ grok = NotCalled /\ decomp = NotCalled

\* three words, both comparators
Init ==
    /\ \E S \in TripleAlphabets :
          words \in WordsOver(S, MaxLen) \X WordsOver(S, MaxLen) \X WordsOver(S, MaxLen)
    /\ NoCompare
    /\ items = <<>> /\ key = None /\ abcOut = NoSort /\ grokOut = NoSort

Next == AbcCompare \/ GrokCompare

Spec == Init /\ [][Next]_vars

\* two words, PinyinAbcSort._compare_pinyin
InitAbcPairs ==
    /\ \E S \in AbcPairAlphabets :
          words \in WordsOver(S, MaxPairLen) \X WordsOver(S, MaxPairLen)
    /\ NoCompare
    /\ items = <<>> /\ key = None /\ abcOut = NoSort /\ grokOut = NoSort

NextAbcPairs == AbcCompare

SpecAbcPairs == InitAbcPairs /\ [][NextAbcPairs]_vars

\* two words, PinyinGrokSort._compare_pinyin
InitGrokPairs ==
    /\ \E S \in GrokPairAlphabets :
          words \in WordsOver(S, MaxPairLen) \X WordsOver(S, MaxPairLen)
    /\ NoCompare
    /\ items = <<>> /\ key = None /\ abcOut = NoSort /\ grokOut = NoSort

NextGrokPairs == GrokCompare

SpecGrokPairs == InitGrokPairs /\ [][NextGrokPairs]_vars

\* the sort drivers
InitSort ==
    /\ words = <<>>
    /\ NoCompare
    /\ items \in ItemLists
    /\ key \in Keys
    /\ abcOut = NoSort /\ grokOut = NoSort

NextSort ==
    \/ \E reverse \in BOOLEAN : AbcSort(reverse)
    \/ \E reverse \in BOOLEAN : GrokSort(reverse)

SpecSort == InitSort /\ [][NextSort]_vars

----------------------------------------------------------------------------
(* Properties                                                              *)

Flags == BOOLEAN

\* the list a sort call returned, and whether it returned one
Sorted(out, reverse) == out[reverse].result.list
ReturnedList(out, reverse) ==
    out[reverse].called /\ out[reverse].result.error = "none"

\* C1: pinyin_abc_sort(["bǎozhàng", "Bǎoyǔ", "bǎoyù"]) returns
\* ["bǎoyù", "bǎozhàng", "Bǎoyǔ"], and with reverse=True it returns
\* ["Bǎoyǔ", "bǎozhàng", "bǎoyù"].
C1_DocExample ==
    (items = DocWords /\ key = None) =>
        /\ abcOut[FALSE].called =>
              /\ abcOut[FALSE].result.error = "none"
              /\ Sorted(abcOut, FALSE) = <<Str(bao3yu4), Str(bao3zhang4), Str(Bao3yu3)>>
        /\ abcOut[TRUE].called =>
              /\ abcOut[TRUE].result.error = "none"
              /\ Sorted(abcOut, TRUE) = <<Str(Bao3yu3), Str(bao3zhang4), Str(bao3yu4)>>

\* the plain and the toned vowels, lowercased
IsVowel(c) == translate_char(lower_char(c)) \in {97, 101, 105, 111, 117, 252}

\* v and w are the same word except at one position, where the same vowel
\* in the same case carries a lower tone class in v than in w
OneToneApart(v, w) ==
    /\ Len(v) = Len(w)
    /\ \E i \in 1..Len(v) :
          /\ \A j \in 1..Len(v) : j # i => v[j] = w[j]
          /\ IsVowel(v[i])
          /\ translate_char(lower_char(v[i])) = translate_char(lower_char(w[i]))
          /\ isupper(v[i]) = isupper(w[i])
          /\ tone_of(lower_char(v[i])) < tone_of(lower_char(w[i]))

\* C2: in PinyinGrokSort, two words that differ only in the tone of one
\* vowel compare by that tone, 0 < 1 < 2 < 3 < 4: the word with the lower
\* tone class compares less, also when the words have several vowels.
C2_ToneOrder ==
    (grok.called /\ OneToneApart(words[1], words[2])) =>
        grok.result[<<1, 2>>] = -1

HasSeparator(w) == Contains(w, 32) \/ Contains(w, 45)

\* w is v with the separator sep put between two non-empty syllables of v
JoinedBy(v, w, sep) ==
    /\ ~ HasSeparator(v)
    /\ \E p \in 1..(Len(v) - 1) :
          w = SubSeq(v, 1, p) \o <<sep>> \o SubSeq(v, p + 1, Len(v))

\* v and w are the same syllables, joined by a space in v and a hyphen in w
SpaceVsHyphen(v, w) ==
    \E u \in {SelectSeq(v, LAMBDA c : c # 32)} :
        JoinedBy(u, v, 32) /\ JoinedBy(u, w, 45)

\* C3: in PinyinGrokSort, the same syllables joined by nothing, by a space
\* and by a hyphen compare none < space < hyphen.
C3_SeparatorOrder ==
    grok.called =>
        /\ JoinedBy(words[1], words[2], 32) => grok.result[<<1, 2>>] = -1
        /\ JoinedBy(words[1], words[2], 45) => grok.result[<<1, 2>>] = -1
        /\ SpaceVsHyphen(words[1], words[2]) => grok.result[<<1, 2>>] = -1

\* sign(compare(a, b)) = -sign(compare(b, a)), and compare(a, b) <= 0 and
\* compare(b, c) <= 0 give compare(a, c) <= 0, for the results r of one
\* comparator on the words
Consistent(r) ==
    /\ \A i, j \in DOMAIN words : r[<<i, j>>] = - r[<<j, i>>]
    /\ \A i, j, l \in DOMAIN words :
          (r[<<i, j>>] <= 0 /\ r[<<j, l>>] <= 0) => r[<<i, l>>] <= 0

\* C4: both comparators are consistent total-order comparators: the results
\* on a pair and on the swapped pair have opposite signs (so a word compares
\* 0 with itself), and the order they give is transitive.
C4_TotalOrder ==
    /\ abc.called => Consistent(abc.result)
    /\ grok.called => Consistent(grok.result)

\* both comparators have put three different words in a chain a < b < c
C4_Witness ==
    /\ abc.called /\ grok.called
    /\ Len(words[1]) = MaxLen
    /\ abc.result[<<1, 2>>] = -1 /\ abc.result[<<2, 3>>] = -1
    /\ grok.result[<<1, 2>>] = -1 /\ grok.result[<<2, 3>>] = -1

\* every character is in the ordered alphabet or is the uppercase form of
\* one of its letters
InAlphabetOrUpper(w) == \A i \in 1..Len(w) : lower_char(w[i]) \in DOMAIN WEIGHTS

\* the first position where v and w differ
FirstDiff(v, w) ==
    CHOOSE i \in 1..Len(v) : v[i] # w[i] /\ \A j \in 1..(i - 1) : v[j] = w[j]

\* v and w are different words, equal after lowercasing
CaseVariants(v, w) ==
    /\ InAlphabetOrUpper(v) /\ InAlphabetOrUpper(w)
    /\ v # w
    /\ lower(v) = lower(w)

\* C5: in PinyinAbcSort, lowercase sorts before uppercase: of two different
\* words that are equal after lowercasing, the one with the lowercase letter
\* at the first position where they differ compares less.
C5_LowerFirst ==
    (abc.called /\ CaseVariants(words[1], words[2])) =>
        LET i == FirstDiff(words[1], words[2])
        IN  /\ ~ isupper(words[1][i]) => abc.result[<<1, 2>>] = -1
            /\ isupper(words[1][i]) => abc.result[<<1, 2>>] = 1

\* two case variants that begin with the same uppercase letter and differ
\* later, the first with the lowercase letter there
C5_Witness ==
    /\ abc.called
    /\ CaseVariants(words[1], words[2])
    /\ isupper(words[1][1])
    /\ FirstDiff(words[1], words[2]) > 1
    /\ ~ isupper(words[1][FirstDiff(words[1], words[2])])
    /\ abc.result[<<1, 2>>] = -1

\* no two items of the list compare equal
NoTies(which) ==
    \A i, j \in 1..Len(items) :
        i # j => compare_items(which, items[i], items[j], key) # 0

\* C6 as stated: for every list, the result with reverse=True is the
\* element-by-element reversal of the result with reverse=False.
C6_ReverseIsReversal ==
    /\ (ReturnedList(abcOut, FALSE) /\ ReturnedList(abcOut, TRUE)) =>
          Sorted(abcOut, TRUE) = Reverse(Sorted(abcOut, FALSE))
    /\ (ReturnedList(grokOut, FALSE) /\ ReturnedList(grokOut, TRUE)) =>
          Sorted(grokOut, TRUE) = Reverse(Sorted(grokOut, FALSE))

\* C6 as amended: for every list of which no two items compare equal, the
\* result with reverse=True is the element-by-element reversal of the
\* result with reverse=False.
C6_ReverseIsReversalNoTies ==
    /\ (ReturnedList(abcOut, FALSE) /\ ReturnedList(abcOut, TRUE)
            /\ Len(items) >= 2 /\ NoTies("abc")) =>
          Sorted(abcOut, TRUE) = Reverse(Sorted(abcOut, FALSE))
    /\ (ReturnedList(grokOut, FALSE) /\ ReturnedList(grokOut, TRUE)
            /\ Len(items) >= 2 /\ NoTies("grok")) =>
          Sorted(grokOut, TRUE) = Reverse(Sorted(grokOut, FALSE))

\* a list of dictionaries, sorted by a key both ways by both drivers, of
\* which no two items compare equal and which was not in order
C6_Witness ==
    /\ Len(items) = MaxItems
    /\ key = <<"pinyin">>
    /\ \A r \in Flags : ReturnedList(abcOut, r) /\ ReturnedList(grokOut, r)
    /\ NoTies("abc") /\ NoTies("grok")
    /\ Sorted(abcOut, FALSE) # items
    /\ Sorted(abcOut, TRUE) # items
    /\ Sorted(abcOut, TRUE) = Reverse(Sorted(abcOut, FALSE))

\* a key is supplied and some dictionary of the list does not have it
KeyMissing ==
    /\ key # None
    /\ \E i \in 1..Len(items) :
          items[i].kind = "dict" /\ key[1] \notin DOMAIN items[i].d

\* C7: whenever a key is supplied and an item of the list does not have it,
\* the call of either driver ends in an error and returns no list, whatever
\* the length of the list and the key.
C7_MissingKeyFails ==
    KeyMissing =>
        \A r \in Flags :
            /\ abcOut[r].called => abcOut[r].result.error # "none"
            /\ grokOut[r].called => grokOut[r].result.error # "none"

\* the syllables of w: the non-empty pieces between spaces and hyphens
RECURSIVE Syllables(_, _, _)
Syllables(w, i, cur) ==
    IF i > Len(w)
    THEN IF cur = <<>> THEN <<>> ELSE <<cur>>
    ELSE IF w[i] \in {32, 45}
    THEN (IF cur = <<>> THEN <<>> ELSE <<cur>>) \o Syllables(w, i + 1, <<>>)
    ELSE Syllables(w, i + 1, Append(cur, w[i]))

\* the tone class of a syllable: that of its toned vowel, 0 without one
SyllableTone(syl) ==
    LET toned == {j \in 1..Len(syl) : is_toned(syl[j])}
    IN  IF toned = {} THEN 0
        ELSE tone_of(syl[CHOOSE j \in toned : \A l \in toned : l <= j])

ExpectedTones(w) ==
    LET syls == Syllables(lower(w), 1, <<>>)
    IN  [n \in 1..Len(syls) |-> SyllableTone(syls[n])]

\* C8: get_base_and_tones returns one tone per syllable: as many entries as
\* the word has non-empty syllables, the i-th the tone class of the i-th
\* syllable (0 for a syllable without a toned vowel).
C8_OneTonePerSyllable ==
    decomp.called =>
        \A i \in DOMAIN words :
            decomp.result[i].tones = ExpectedTones(words[i])

\* C9: the ordered alphabet holds every character at most once, and the
\* weight table gives each character its index in the alphabet, so the
\* ranks are 0 .. len(alphabet) - 1 without a gap.
C9_AlphabetRanks ==
    abc.called =>
        /\ \A i, j \in 1..Len(ordered_chars) :
              ordered_chars[i] = ordered_chars[j] => i = j
        /\ \A i \in 1..Len(ordered_chars) : WEIGHTS[ordered_chars[i]] = i - 1
        /\ {WEIGHTS[c] : c \in DOMAIN WEIGHTS} = 0..(Len(ordered_chars) - 1)

\* the characters of the words
CharsOf(w) == {w[i] : i \in 1..Len(w)}

\* C10: PinyinAbcSort._compare_pinyin returns 0 only for identical words,
\* and no two different characters, in the table or not, get the same rank.
C10_ZeroOnlyIfIdentical ==
    abc.called =>
        /\ \A i, j \in DOMAIN words :
              abc.result[<<i, j>>] = 0 => words[i] = words[j]
        /\ \A c1, c2 \in CharsOf(words[1]) \cup CharsOf(words[2]) :
              weight(c1) = weight(c2) => c1 = c2

\* two words of the longest length over characters outside the table that
\* differ after lowercasing: they compare unequal, and the first compares
\* 0 with itself
C10_Witness ==
    /\ abc.called
    /\ Len(words[1]) = MaxPairLen /\ Len(words[2]) = MaxPairLen
    /\ \A c \in CharsOf(words[1]) \cup CharsOf(words[2]) : c \notin DOMAIN WEIGHTS
    /\ lower(words[1]) # lower(words[2])
    /\ abc.result[<<1, 2>>] # 0
    /\ abc.result[<<1, 1>>] = 0

====
